---------------------------- MODULE Spec2Model ----------------------------
(***************************************************************************)
(* GetThis collection pipeline (src/src/OrcCommand/GetThis_Run.cpp):       *)
(* naming, limits, match ingestion, the archive and directory sinks and    *)
(* the run that drives them.                                               *)
(***************************************************************************)
EXTENDS Integers, Sequences, FiniteSets, TLC

VARIABLES
    pc,            \* position of Main::Run: start, init, find, collect, close, done
    result,        \* value returned by Main::Run ("running" until it returns)
    events,        \* what went wrong on the way: failures logged, exceptions thrown
    config,        \* config.Output.Type, bReportAll, CryptoHashAlgs, FuzzyHashAlgs
    GlobalLimits,  \* Main::GlobalLimits
    listofSpecs,   \* config.listofSpecs (PerSampleLimits are updated by the run)
    Samples,       \* Main::Samples (SampleSet)
    SampleNames,   \* Main::SampleNames
    delivered,     \* the matches the finder has passed to onMatchCb
    collectPos,    \* number of samples WriteSamples has iterated over
    written,       \* keys of the samples passed to WriteSample, in call order
    queue,         \* archive encoder: entries appended and not yet consumed
    encLog,        \* archive encoder: the operations it has seen, in order
    files,         \* directory sink: sample files created under the output dir
    csv,           \* rows written to the table writer, in order
    finalized,     \* keys of samples whose hashes FinalizeHashes has extracted
    reads,         \* reads of copy-streams to EOF: which sample, into which sink
    evalIn,        \* inputs of the function applied on its own (SpecLimits, SpecStreams)
    evalOut        \* its result

vars == <<pc, result, events, config, GlobalLimits, listofSpecs, Samples, SampleNames,
          delivered, collectPos, written, queue, encLog, files, csv, finalized, reads,
          evalIn, evalOut>>

-----------------------------------------------------------------------------
(* Bounds of the model *)

\* number of different matches the finder passes to the callback in one run
MaxMatches == 2
\* width in bits of the DWORD sample counters (32 in the program)
CountBits == 2
\* width in bits of the DWORDLONG byte counters (64 in the program)
BytesBits == 3

Pow2(n) == 2 ^ n
CountMod == Pow2(CountBits)
BytesMod == Pow2(BytesBits)

\* INFINITE is the all-ones DWORD; the byte limits are compared with the same value
INFINITE == CountMod - 1

-----------------------------------------------------------------------------
(* HRESULT *)

FAILED(hr) == hr \notin {"S_OK", "S_FALSE"}

-----------------------------------------------------------------------------
(* A local value is bound once, as x in { e(x) : x \in {v} }, and used many times *)

Only(S) == CHOOSE v \in S : TRUE

-----------------------------------------------------------------------------
(* Naming: Main::CreateSampleFileName *)

HexChars == <<"0", "1", "2", "3", "4", "5", "6", "7",
              "8", "9", "A", "B", "C", "D", "E", "F">>

\* %*.*X with width = precision = w: w upper-case hex digits, zero padded
RECURSIVE Hex(_, _)
Hex(n, w) == IF w = 0 THEN <<>> ELSE Hex(n \div 16, w - 1) \o <<HexChars[(n % 16) + 1]>>

\* %u
RECURSIVE Dec(_)
Dec(n) == IF n < 10 THEN <<HexChars[n + 1]>> ELSE Dec(n \div 10) \o <<HexChars[(n % 10) + 1]>>

\* %.*s: at most len characters of the buffer
Take(s, len) == SubSeq(s, 1, IF len < Len(s) THEN len ELSE Len(s))

\* sizeof of the three fields of MFT_SEGMENT_REFERENCE
SizeofSequenceNumber == 2
SizeofSegmentNumberHighPart == 2
SizeofSegmentNumberLowPart == 4

ContentTag(content) ==
    CASE content.Type = "DATA" -> <<"d", "a", "t", "a">>
      [] content.Type = "STRINGS" -> <<"s", "t", "r", "i", "n", "g", "s">>
      [] content.Type = "RAW" -> <<"r", "a", "w">>
      [] OTHER -> <<>>

ParentHex(pFileName) ==
    Hex(pFileName.ParentDirectory.SequenceNumber, SizeofSequenceNumber * 2)
    \o Hex(pFileName.ParentDirectory.SegmentNumberHighPart, SizeofSegmentNumberHighPart * 2)
    \o Hex(pFileName.ParentDirectory.SegmentNumberLowPart, SizeofSegmentNumberLowPart * 2)

iswspace(c) == c \in {" ", "\t", "\n", "\r", "\f"}

ReplaceChar(c) == IF iswspace(c) \/ c = ":" \/ c = "#" THEN "_" ELSE c

Sanitize(s) == [i \in 1..Len(s) |-> ReplaceChar(s[i])]

\* the four swprintf_s templates, given the formatted arguments
FormatTemplate(ppp, fname, DataName, idx, tag) ==
    IF idx # 0
    THEN IF Len(DataName) # 0
         THEN ppp \o <<"_">> \o fname \o <<"_">> \o DataName \o <<"_">> \o Dec(idx) \o <<"_">> \o tag
         ELSE ppp \o <<"_", "_">> \o fname \o <<"_">> \o Dec(idx) \o <<"_">> \o tag
    ELSE IF Len(DataName) # 0
         THEN ppp \o <<"_", "_">> \o fname \o <<"_">> \o DataName \o <<"_">> \o tag
         ELSE ppp \o <<"_">> \o fname \o <<"_">> \o tag

FormatSampleName(content, pFileName, DataName, idx) ==
    FormatTemplate(ParentHex(pFileName), Take(pFileName.FileName, pFileName.FileNameLength),
                   DataName, idx, ContentTag(content))

\* WCHAR tmpName[MAX_PATH]
MAX_PATH == 260

\* swprintf_s(tmpName, MAX_PATH, ...): the text and its terminating null fit the buffer, or
\* the buffer is set to the empty string and the invalid parameter handler is invoked
swprintf_s(text) ==
    IF Len(text) + 1 <= MAX_PATH THEN [tmpName |-> text, invalid |-> FALSE]
    ELSE [tmpName |-> <<>>, invalid |-> TRUE]

\* returns the HRESULT and the value of the out parameter SampleFileName; invalid tells
\* that the invalid parameter handler was invoked and has returned
CreateSampleFileName(content, pFileName, DataName, idx, SampleFileName) ==
    IF pFileName.isNull
    THEN [hr |-> "E_POINTER", SampleFileName |-> SampleFileName, invalid |-> FALSE]
    ELSE Only({[hr |-> "S_OK", SampleFileName |-> Sanitize(f.tmpName), invalid |-> f.invalid] :
               f \in {swprintf_s(FormatSampleName(content, pFileName, DataName, idx))}})

-----------------------------------------------------------------------------
(* Limits: Main::SampleLimitStatus *)

\* DataSize + accumulated bytes, in DWORDLONG arithmetic
AddBytes(a, b) == (a + b) % BytesMod

\* accumulated count + 1, in DWORD arithmetic
IncCount(a) == (a + 1) % CountMod

\* SampleLimitStatus without the bIgnoreLimits test
SampleLimitStatus_NoIgnore(Global, Local, DataSize) ==
    IF Global.dwMaxSampleCount # INFINITE
       /\ Global.dwAccumulatedSampleCount >= Global.dwMaxSampleCount
    THEN "GlobalSampleCountLimitReached"
    ELSE IF Local.dwMaxSampleCount # INFINITE
            /\ Local.dwAccumulatedSampleCount >= Local.dwMaxSampleCount
    THEN "LocalSampleCountLimitReached"
    ELSE IF Global.dwlMaxBytesPerSample # INFINITE
            /\ DataSize > Global.dwlMaxBytesPerSample
    THEN "GlobalMaxBytesPerSample"
    ELSE IF Global.dwlMaxBytesTotal # INFINITE
            /\ AddBytes(DataSize, Global.dwlAccumulatedBytesTotal) > Global.dwlMaxBytesTotal
    THEN "GlobalMaxBytesTotal"
    ELSE IF Local.dwlMaxBytesPerSample # INFINITE
            /\ DataSize > Local.dwlMaxBytesPerSample
    THEN "LocalMaxBytesPerSample"
    ELSE IF Local.dwlMaxBytesTotal # INFINITE
            /\ AddBytes(DataSize, Local.dwlAccumulatedBytesTotal) > Local.dwlMaxBytesTotal
    THEN "LocalMaxBytesTotal"
    ELSE "SampleWithinLimits"

SampleLimitStatus(Global, Local, DataSize) ==
    IF Global.bIgnoreLimits THEN "NoLimits"
    ELSE IF Global.dwMaxSampleCount # INFINITE
            /\ Global.dwAccumulatedSampleCount >= Global.dwMaxSampleCount
    THEN "GlobalSampleCountLimitReached"
    ELSE IF Local.dwMaxSampleCount # INFINITE
            /\ Local.dwAccumulatedSampleCount >= Local.dwMaxSampleCount
    THEN "LocalSampleCountLimitReached"
    ELSE IF Global.dwlMaxBytesPerSample # INFINITE
            /\ DataSize > Global.dwlMaxBytesPerSample
    THEN "GlobalMaxBytesPerSample"
    ELSE IF Global.dwlMaxBytesTotal # INFINITE
            /\ AddBytes(DataSize, Global.dwlAccumulatedBytesTotal) > Global.dwlMaxBytesTotal
    THEN "GlobalMaxBytesTotal"
    ELSE IF Local.dwlMaxBytesPerSample # INFINITE
            /\ DataSize > Local.dwlMaxBytesPerSample
    THEN "LocalMaxBytesPerSample"
    ELSE IF Local.dwlMaxBytesTotal # INFINITE
            /\ AddBytes(DataSize, Local.dwlAccumulatedBytesTotal) > Local.dwlMaxBytesTotal
    THEN "LocalMaxBytesTotal"
    ELSE "SampleWithinLimits"

-----------------------------------------------------------------------------
(* What the finder can report: file names, attributes and matches *)

NullFileName ==
    [isNull |-> TRUE,
     ParentDirectory |-> [SequenceNumber |-> 0, SegmentNumberHighPart |-> 0, SegmentNumberLowPart |-> 0],
     FileNameLength |-> 0, FileName |-> <<>>]

FileNameRec(seq, low, len, buf) ==
    [isNull |-> FALSE,
     ParentDirectory |-> [SequenceNumber |-> seq, SegmentNumberHighPart |-> 0, SegmentNumberLowPart |-> low],
     FileNameLength |-> len, FileName |-> buf]

\* a matching name: its full path and the FILE_NAME record FILENAME() points to
NameA == [FullPathName |-> "\\dir\\a", FILENAME |-> FileNameRec(1, 5, 1, <<"a">>)]
NameB == [FullPathName |-> "\\dir\\b:", FILENAME |-> FileNameRec(1, 5, 2, <<"b", ":", "x">>)]
NameNull1 == [FullPathName |-> "\\dir\\n1", FILENAME |-> NullFileName]
NameNull2 == [FullPathName |-> "\\dir\\n2", FILENAME |-> NullFileName]

\* a matching attribute; OpenFails names the reader whose open fails on its stream
Attr(inst, name, size, fails) ==
    [InstanceID |-> inst, AttrName |-> name, DataSize |-> size, OpenFails |-> fails]

Match(vol, frn, names, attrs, term) ==
    [VolumeSerial |-> vol, FRN |-> frn, MatchingNames |-> names,
     MatchingAttributes |-> attrs, Term |-> term]

MatchIds == {"M1", "M2", "M3", "M4", "M5", "M6", "M7", "M8", "M9"}

MatchOf(id) ==
    CASE id = "M1" -> Match(1, 1, <<NameA>>, <<Attr(0, <<>>, 1, "none")>>, "T1")
      [] id = "M2" -> Match(1, 1, <<NameB>>, <<Attr(0, <<>>, 1, "none")>>, "T1")
      [] id = "M3" -> Match(1, 2, <<NameA, NameB>>,
                            <<Attr(0, <<>>, 2, "none"), Attr(1, <<"1">>, 4, "none")>>, "T1")
      [] id = "M4" -> Match(1, 3, <<NameNull1>>, <<Attr(0, <<>>, 1, "none")>>, "T2")
      [] id = "M5" -> Match(2, 3, <<NameNull2>>, <<Attr(0, <<>>, 4, "none")>>, "T2")
      [] id = "M6" -> Match(2, 1, <<NameA>>, <<Attr(0, <<>>, 4, "none")>>, "T1")
      [] id = "M7" -> Match(1, 4, <<NameA>>, <<>>, "T1")
      [] id = "M8" -> Match(1, 5, <<NameA>>, <<Attr(0, <<>>, 1, "none")>>, "T0")
      [] id = "M9" -> Match(2, 2, <<NameB>>, <<Attr(0, <<>>, 1, "hash")>>, "T2")
      [] id = "M10" -> Match(1, 2, <<NameA>>, <<Attr(0, <<>>, 2, "none")>>, "T1")

-----------------------------------------------------------------------------
(* SampleRegistry: Main::Samples is a std::set ordered by SampleRef::operator< *)

SampleKey(s) == <<s.VolumeSerial, s.FRN, s.InstanceID>>

KeyLess(a, b) ==
    \/ a[1] < b[1]
    \/ a[1] = b[1] /\ a[2] < b[2]
    \/ a[1] = b[1] /\ a[2] = b[2] /\ a[3] < b[3]

\* a find that compares whole SampleRef values instead of their keys
SamplesFind_WholeRecord(S, sampleRef) == sampleRef \in S

\* Samples.find(sampleRef) != end(Samples)
SamplesFind(S, sampleRef) == \E s \in S : SampleKey(s) = SampleKey(sampleRef)

\* iteration order of the set
RECURSIVE SortedSamples(_)
SortedSamples(S) ==
    IF S = {} THEN <<>>
    ELSE Only({<<m>> \o SortedSamples(S \ {m}) :
                 m \in {CHOOSE s \in S : \A t \in S : ~KeyLess(SampleKey(t), SampleKey(s))}})

-----------------------------------------------------------------------------
(* StreamPipeline: Main::ConfigureSampleStreams *)

Undefined == {}

ConfigureSampleStreams(sampleRef, anAttr, cfg) ==
    IF sampleRef.SampleName = <<>>
    THEN [hr |-> "E_INVALIDARG", sampleRef |-> sampleRef]
    ELSE IF sampleRef.Content.Type = "STRINGS" /\ anAttr.OpenFails = "strings"
    THEN [hr |-> "E_FAIL", sampleRef |-> sampleRef]
    ELSE IF cfg.CryptoHashAlgs # Undefined /\ anAttr.OpenFails = "hash"
    THEN [hr |-> "E_FAIL", sampleRef |-> [sampleRef EXCEPT !.HashStream = TRUE]]
    ELSE IF cfg.FuzzyHashAlgs # Undefined /\ anAttr.OpenFails = "fuzzy"
    THEN [hr |-> "E_FAIL",
          sampleRef |-> [sampleRef EXCEPT !.HashStream = (cfg.CryptoHashAlgs # Undefined),
                                          !.FuzzyHashStream = TRUE]]
    ELSE [hr |-> "S_OK",
          sampleRef |-> [sampleRef EXCEPT !.HashStream = (cfg.CryptoHashAlgs # Undefined),
                                          !.FuzzyHashStream = (cfg.FuzzyHashAlgs # Undefined),
                                          !.CopyStream = TRUE,
                                          !.SampleSize = anAttr.DataSize]]

-----------------------------------------------------------------------------
(* MatchIngestor: Main::AddSamplesForMatch *)

OffLimitsOf(status) == status \notin {"NoLimits", "SampleWithinLimits"}

\* the draft SampleRef built at the top of the loop over MatchingAttributes
DraftSample(status, mid, aMatch, sIndex) ==
    [VolumeSerial |-> aMatch.VolumeSerial, FRN |-> aMatch.FRN,
     InstanceID |-> aMatch.MatchingAttributes[sIndex].InstanceID,
     AttributeIndex |-> sIndex - 1,
     Matches |-> <<mid>>, Content |-> [Type |-> "INVALID"], SampleName |-> <<>>,
     OffLimits |-> OffLimitsOf(status), CopyStream |-> FALSE, HashStream |-> FALSE,
     FuzzyHashStream |-> FALSE, SampleSize |-> 0]

\* CabSampleName.insert(0, L"\\"); CabSampleName.insert(0, aSpec.Name)
WithSpecName(specName, name) ==
    IF specName # <<>> THEN specName \o <<"\\">> \o name ELSE name

\* the do ... while (it != end(SampleNames)) loop
RECURSIVE NameSearch(_, _, _, _, _, _, _)
NameSearch(content, pFileName, AttrName, specName, dwIdx, CabSampleName, Names) ==
    Only({IF FAILED(r.hr) THEN [hr |-> r.hr, CabSampleName |-> r.SampleFileName]
          ELSE Only({IF cab \in Names
                     THEN NameSearch(content, pFileName, AttrName, specName, dwIdx + 1, cab, Names)
                     ELSE [hr |-> r.hr, CabSampleName |-> cab] :
                     cab \in {WithSpecName(specName, r.SampleFileName)}}) :
          r \in {CreateSampleFileName(content, pFileName, AttrName, dwIdx, CabSampleName)}})

\* the loop over aMatch->MatchingNames; acc = [hr, sampleRef, SampleNames]
RECURSIVE NamesLoop(_, _, _, _, _)
NamesLoop(aSpec, names, anAttr, j, acc) ==
    IF j > Len(names) THEN acc
    ELSE NamesLoop(aSpec, names, anAttr, j + 1,
            Only({[hr |-> r.hr,
                   sampleRef |-> [acc.sampleRef EXCEPT !.Content = aSpec.Content,
                                                       !.SampleName = r.CabSampleName],
                   SampleNames |-> acc.SampleNames \cup {r.CabSampleName}] :
                  r \in {NameSearch(aSpec.Content, names[j].FILENAME, anAttr.AttrName,
                                    aSpec.Name, 0, <<>>, acc.SampleNames)}}))

\* the else branch: name the sample, configure its streams, insert it
InsertNewSample(aSpec, aMatch, anAttr, sampleRef, cfg, acc) ==
    Only({Only({[hr |-> c.hr, Samples |-> acc.Samples \cup {c.sampleRef},
                 SampleNames |-> n.SampleNames] :
                c \in {ConfigureSampleStreams(n.sampleRef, anAttr, cfg)}}) :
          n \in {NamesLoop(aSpec, aMatch.MatchingNames, anAttr, 1,
                           [hr |-> acc.hr, sampleRef |-> sampleRef,
                            SampleNames |-> acc.SampleNames])}})

\* a duplicate branch that gives the sample found the OffLimits of the new status
AddSampleForAttribute_LastStatusWins(status, aSpec, mid, aMatch, sIndex, cfg, acc) ==
    Only({IF SamplesFind(acc.Samples, sampleRef)
          THEN [acc EXCEPT !.hr = "S_FALSE",
                           !.Samples = {IF SampleKey(s) = SampleKey(sampleRef)
                                        THEN [s EXCEPT !.OffLimits = sampleRef.OffLimits]
                                        ELSE s : s \in @}]
          ELSE InsertNewSample(aSpec, aMatch, aMatch.MatchingAttributes[sIndex],
                               sampleRef, cfg, acc) :
          sampleRef \in {DraftSample(status, mid, aMatch, sIndex)}})

\* one iteration of the loop over aMatch->MatchingAttributes; acc = [hr, Samples, SampleNames]
AddSampleForAttribute(status, aSpec, mid, aMatch, sIndex, cfg, acc) ==
    Only({IF SamplesFind(acc.Samples, sampleRef)
          THEN [acc EXCEPT !.hr = "S_FALSE"]
          ELSE InsertNewSample(aSpec, aMatch, aMatch.MatchingAttributes[sIndex],
                               sampleRef, cfg, acc) :
          sampleRef \in {DraftSample(status, mid, aMatch, sIndex)}})

RECURSIVE AddSamplesLoop(_, _, _, _, _, _, _)
AddSamplesLoop(status, aSpec, mid, aMatch, sIndex, cfg, acc) ==
    IF sIndex > Len(aMatch.MatchingAttributes) THEN acc
    ELSE AddSamplesLoop(status, aSpec, mid, aMatch, sIndex + 1, cfg,
                        AddSampleForAttribute(status, aSpec, mid, aMatch, sIndex, cfg, acc))

AddSamplesForMatch(status, aSpec, mid, aMatch, cfg, S, Names) ==
    Only({[hr |-> IF r.hr = "S_FALSE" THEN "S_FALSE" ELSE "S_OK",
           Samples |-> r.Samples, SampleNames |-> r.SampleNames] :
          r \in {AddSamplesLoop(status, aSpec, mid, aMatch, 1, cfg,
                                [hr |-> "E_FAIL", Samples |-> S, SampleNames |-> Names])}})

-----------------------------------------------------------------------------
(* Main::FindMatchingSamples: the match callback onMatchCb *)

Accumulate(L, DataSize) ==
    [L EXCEPT !.dwlAccumulatedBytesTotal = AddBytes(@, DataSize),
              !.dwAccumulatedSampleCount = IncCount(@)]

\* a switch that assigns each flag from the current status instead of only setting it
UpdateLimits_AssignFlags(status, hr, DataSize, st) ==
    Only({IF status \in {"NoLimits", "SampleWithinLimits"} /\ hr # "S_FALSE"
          THEN [f EXCEPT !.L = Accumulate(@, DataSize), !.G = Accumulate(@, DataSize)]
          ELSE f :
          f \in {[st EXCEPT
                    !.G.bMaxSampleCountReached = (status = "GlobalSampleCountLimitReached"),
                    !.G.bMaxBytesPerSampleReached = (status = "GlobalMaxBytesPerSample"),
                    !.G.bMaxBytesTotalReached = (status = "GlobalMaxBytesTotal"),
                    !.L.bMaxSampleCountReached = (status = "LocalSampleCountLimitReached"),
                    !.L.bMaxBytesPerSampleReached = (status = "LocalMaxBytesPerSample"),
                    !.L.bMaxBytesTotalReached = (status = "LocalMaxBytesTotal")]}})

\* a switch that records the local statuses on the global limits
UpdateLimits_LocalOnGlobal(status, hr, DataSize, st) ==
    CASE status \in {"NoLimits", "SampleWithinLimits"} ->
            IF hr = "S_FALSE" THEN st
            ELSE [st EXCEPT !.L = Accumulate(@, DataSize), !.G = Accumulate(@, DataSize)]
      [] status \in {"GlobalSampleCountLimitReached", "LocalSampleCountLimitReached"} ->
            [st EXCEPT !.G.bMaxSampleCountReached = TRUE]
      [] status \in {"GlobalMaxBytesPerSample", "LocalMaxBytesPerSample"} ->
            [st EXCEPT !.G.bMaxBytesPerSampleReached = TRUE]
      [] status \in {"GlobalMaxBytesTotal", "LocalMaxBytesTotal"} ->
            [st EXCEPT !.G.bMaxBytesTotalReached = TRUE]
      [] OTHER -> st

\* the switch (status) after AddSamplesForMatch; st = [G, L, Samples, SampleNames]
UpdateLimits(status, hr, DataSize, st) ==
    CASE status \in {"NoLimits", "SampleWithinLimits"} ->
            IF hr = "S_FALSE" THEN st
            ELSE [st EXCEPT !.L = Accumulate(@, DataSize), !.G = Accumulate(@, DataSize)]
      [] status = "GlobalSampleCountLimitReached" -> [st EXCEPT !.G.bMaxSampleCountReached = TRUE]
      [] status = "GlobalMaxBytesPerSample" -> [st EXCEPT !.G.bMaxBytesPerSampleReached = TRUE]
      [] status = "GlobalMaxBytesTotal" -> [st EXCEPT !.G.bMaxBytesTotalReached = TRUE]
      [] status = "LocalSampleCountLimitReached" -> [st EXCEPT !.L.bMaxSampleCountReached = TRUE]
      [] status = "LocalMaxBytesPerSample" -> [st EXCEPT !.L.bMaxBytesPerSampleReached = TRUE]
      [] status = "LocalMaxBytesTotal" -> [st EXCEPT !.L.bMaxBytesTotalReached = TRUE]
      [] OTHER -> st

\* one iteration of the loop over aMatch->MatchingAttributes in the callback
CallbackStep(aSpec, mid, aMatch, i, cfg, st) ==
    Only({Only({UpdateLimits(status, r.hr, aMatch.MatchingAttributes[i].DataSize,
                             [st EXCEPT !.Samples = r.Samples, !.SampleNames = r.SampleNames]) :
                r \in {AddSamplesForMatch(status, aSpec, mid, aMatch, cfg,
                                          st.Samples, st.SampleNames)}}) :
          status \in {SampleLimitStatus(st.G, st.L, aMatch.MatchingAttributes[i].DataSize)}})

RECURSIVE CallbackLoop(_, _, _, _, _, _)
CallbackLoop(aSpec, mid, aMatch, i, cfg, st) ==
    IF i > Len(aMatch.MatchingAttributes) THEN st
    ELSE CallbackLoop(aSpec, mid, aMatch, i + 1, cfg,
                      CallbackStep(aSpec, mid, aMatch, i, cfg, st))

\* std::find_if over config.listofSpecs: index of the first spec holding the term, 0 if none
FindSpec(specs, term) ==
    IF \A k \in 1..Len(specs) : term \notin specs[k].Terms THEN 0
    ELSE CHOOSE k \in 1..Len(specs) :
            /\ term \in specs[k].Terms
            /\ \A h \in 1..(k - 1) : term \notin specs[h].Terms

\* the whole callback, once the spec is looked up; st = [G, specs, Samples, SampleNames]
onMatchWithSpec(mid, aMatch, k, cfg, st) ==
    IF Len(aMatch.MatchingAttributes) = 0 THEN st
    ELSE IF k = 0 THEN st
    ELSE Only({[G |-> r.G, specs |-> [st.specs EXCEPT ![k].PerSampleLimits = r.L],
                Samples |-> r.Samples, SampleNames |-> r.SampleNames] :
               r \in {CallbackLoop(st.specs[k], mid, aMatch, 1, cfg,
                                   [G |-> st.G, L |-> st.specs[k].PerSampleLimits,
                                    Samples |-> st.Samples, SampleNames |-> st.SampleNames])}})

onMatchCb(mid, cfg, st) ==
    Only({onMatchWithSpec(mid, aMatch, FindSpec(st.specs, aMatch.Term), cfg, st) :
          aMatch \in {MatchOf(mid)}})

-----------------------------------------------------------------------------
(* Reporter: Main::AddSampleRefToCSV and Main::FinalizeHashes *)

\* the row written for one name of one match of the sample (the columns the model keeps);
\* Hashes: the digest columns hold what FinalizeHashes has extracted
CsvRow(sample, mid, name, hashed) ==
    [key |-> SampleKey(sample), match |-> mid, FullPathName |-> name.FullPathName,
     SampleName |-> IF sample.OffLimits THEN [nothing |-> TRUE, text |-> <<>>]
                    ELSE [nothing |-> FALSE, text |-> sample.SampleName],
     Hashes |-> hashed]

\* for (const auto& name : match->MatchingNames)
RowsOfNames(sample, mid, names, hashed) ==
    [j \in 1..Len(names) |-> CsvRow(sample, mid, names[j], hashed)]

\* for (const auto& match : sample.Matches)
RECURSIVE RowsOfMatches(_, _, _)
RowsOfMatches(sample, i, hashed) ==
    IF i > Len(sample.Matches) THEN <<>>
    ELSE RowsOfNames(sample, sample.Matches[i], MatchOf(sample.Matches[i]).MatchingNames, hashed)
         \o RowsOfMatches(sample, i + 1, hashed)

\* the rows AddSampleRefToCSV writes for the sample; st = [csv, finalized, reads, ...]
AddSampleRefToCSV(sample, st) == RowsOfMatches(sample, 1, SampleKey(sample) \in st.finalized)

\* FinalizeHashes reads the copy-stream into a DevNullStream
DrainsToNull(sample, cfg) ==
    sample.OffLimits /\ cfg.bReportAll /\ cfg.CryptoHashAlgs # Undefined

\* a FinalizeHashes that reads the copy-stream of every hashed sample into a DevNullStream
FinalizeHashes_DrainsAll(sample, cfg, st) ==
    IF ~sample.HashStream THEN st
    ELSE [st EXCEPT !.finalized = @ \cup {SampleKey(sample)},
                    !.reads = Append(@, [key |-> SampleKey(sample), into |-> "null"])]

\* st = [csv, finalized, reads, ...]
FinalizeHashes(sample, cfg, st) ==
    IF ~sample.HashStream THEN st
    ELSE [st EXCEPT !.finalized = @ \cup {SampleKey(sample)},
                    !.reads = IF DrainsToNull(sample, cfg)
                              THEN Append(@, [key |-> SampleKey(sample), into |-> "null"])
                              ELSE @]

-----------------------------------------------------------------------------
(* Archive sink: Main::WriteSample(compressor, sample) and the encoder *)

SampleOfKey(S, key) == CHOOSE s \in S : SampleKey(s) = key

\* itemArchivedCb: FinalizeHashes, then AddSampleRefToCSV
itemArchivedCb(sample, cfg, st) ==
    Only({[f EXCEPT !.csv = @ \o AddSampleRefToCSV(sample, f)] :
          f \in {FinalizeHashes(sample, cfg, st)}})

\* the encoder consumes the queued entries in order, calling each entry's callback
RECURSIVE ConsumeQueue(_, _, _, _, _)
ConsumeQueue(q, i, S, cfg, st) ==
    IF i > Len(q) THEN [st EXCEPT !.queue = <<>>]
    ELSE ConsumeQueue(q, i + 1, S, cfg,
            itemArchivedCb(SampleOfKey(S, q[i].key), cfg,
                [st EXCEPT !.reads = Append(@, [key |-> q[i].key, into |-> "archive"]),
                           !.encLog = Append(@, [op |-> "Consumed", key |-> q[i].key, name |-> q[i].name])]))

\* compressor->AddStream accepts the entry
AddStream(sample, st) ==
    [st EXCEPT !.encLog = Append(@, [op |-> "AddStream", key |-> SampleKey(sample), name |-> sample.SampleName]),
               !.queue = Append(@, [key |-> SampleKey(sample), name |-> sample.SampleName])]

\* a WriteSample that does not test sample.OffLimits
ArchiveWriteSample_NoOffLimitsTest(sample, outcome, cfg, S, st) ==
    IF outcome = "fail"
    THEN [st EXCEPT !.encLog = Append(@, [op |-> "AddStreamFailed", key |-> SampleKey(sample),
                                          name |-> sample.SampleName])]
    ELSE IF outcome = "queued" THEN AddStream(sample, st)
    ELSE Only({ConsumeQueue(added.queue, 1, S, cfg, added) : added \in {AddStream(sample, st)}})

\* a WriteSample that reports the sample itself, right after AddStream has accepted it
ArchiveWriteSample_RowAtAppend(sample, outcome, cfg, S, st) ==
    IF sample.OffLimits THEN st
    ELSE IF outcome = "fail"
    THEN [st EXCEPT !.encLog = Append(@, [op |-> "AddStreamFailed", key |-> SampleKey(sample),
                                          name |-> sample.SampleName])]
    ELSE IF outcome = "queued"
    THEN [AddStream(sample, st) EXCEPT !.csv = @ \o AddSampleRefToCSV(sample, st)]
    ELSE Only({ConsumeQueue(added.queue, 1, S, cfg, added) : added \in {AddStream(sample, st)}})

\* a WriteSample that passes the display name where the name in the archive belongs
ArchiveWriteSample_DisplayName(sample, outcome, cfg, S, st) ==
    IF sample.OffLimits THEN st
    ELSE IF outcome = "fail"
    THEN [st EXCEPT !.encLog = Append(@, [op |-> "AddStreamFailed", key |-> SampleKey(sample),
                                          name |-> sample.SampleName])]
    ELSE Only({IF outcome = "queued" THEN added ELSE ConsumeQueue(added.queue, 1, S, cfg, added) :
               added \in {AddStream([sample EXCEPT !.SampleName =
                             <<MatchOf(sample.Matches[1]).MatchingNames[1].FullPathName>>], st)}})

\* outcome: what compressor->AddStream does with the entry
\*   "fail": refuses it; "queued": keeps it for later; "flushed": consumes its queue now
ArchiveWriteSample(sample, outcome, cfg, S, st) ==
    IF sample.OffLimits THEN st
    ELSE IF outcome = "fail"
    THEN [st EXCEPT !.encLog = Append(@, [op |-> "AddStreamFailed", key |-> SampleKey(sample), name |-> sample.SampleName])]
    ELSE IF outcome = "queued" THEN AddStream(sample, st)
    ELSE Only({ConsumeQueue(added.queue, 1, S, cfg, added) : added \in {AddStream(sample, st)}})

\* the outcomes AddStream can have for the sample: a null stream is refused
ArchiveOutcomes(sample) ==
    IF sample.OffLimits THEN {"none"}
    ELSE IF ~sample.CopyStream THEN {"fail"}
    ELSE {"fail", "queued", "flushed"}

-----------------------------------------------------------------------------
(* Directory sink: Main::WriteSample(outputDir, sample) and CopyStream *)

\* CopyStream returned S_OK: the file is written and the copy-stream read to EOF
Copied(sample, st) ==
    [st EXCEPT !.files = @ \cup {[key |-> SampleKey(sample), name |-> sample.SampleName, complete |-> TRUE]},
               !.reads = Append(@, [key |-> SampleKey(sample), into |-> "file"])]

\* a WriteSample that writes the row before it finalizes the hashes
DirectoryWriteSample_RowFirst(sample, outcome, cfg, st) ==
    IF sample.OffLimits THEN st
    ELSE IF outcome \in {"dirfail", "openfail"} THEN st
    ELSE IF outcome = "copyfail"
    THEN [st EXCEPT !.files = @ \cup {[key |-> SampleKey(sample), name |-> sample.SampleName, complete |-> FALSE]}]
    ELSE Only({FinalizeHashes(sample, cfg, [c EXCEPT !.csv = @ \o AddSampleRefToCSV(sample, c)]) :
               c \in {Copied(sample, st)}})

\* outcome: "dirfail": create_directories fails; "openfail": the output file cannot be
\* created; "copyfail": the copy or the close of the output fails; "ok"
DirectoryWriteSample(sample, outcome, cfg, st) ==
    IF sample.OffLimits THEN st
    ELSE IF outcome \in {"dirfail", "openfail"} THEN st
    ELSE IF outcome = "copyfail"
    THEN [st EXCEPT !.files = @ \cup {[key |-> SampleKey(sample), name |-> sample.SampleName, complete |-> FALSE]}]
    ELSE Only({[f EXCEPT !.csv = @ \o AddSampleRefToCSV(sample, f)] :
               f \in {FinalizeHashes(sample, cfg, Copied(sample, st))}})

DirectoryOutcomes(sample) ==
    IF sample.OffLimits THEN {"none"}
    ELSE {"dirfail", "openfail", "copyfail", "ok"}

-----------------------------------------------------------------------------
(* Configurations a run can start from *)

Limits(ignore, maxCount, maxPerSample, maxTotal) ==
    [bIgnoreLimits |-> ignore, dwMaxSampleCount |-> maxCount,
     dwlMaxBytesPerSample |-> maxPerSample, dwlMaxBytesTotal |-> maxTotal,
     dwAccumulatedSampleCount |-> 0, dwlAccumulatedBytesTotal |-> 0,
     bMaxSampleCountReached |-> FALSE, bMaxBytesPerSampleReached |-> FALSE,
     bMaxBytesTotalReached |-> FALSE]

GlobalProfiles ==
    {Limits(FALSE, INFINITE, INFINITE, INFINITE), Limits(FALSE, 1, INFINITE, INFINITE),
     Limits(FALSE, INFINITE, 2, INFINITE), Limits(FALSE, INFINITE, INFINITE, 5),
     Limits(TRUE, 1, 2, 5)}

LocalProfiles ==
    {Limits(FALSE, INFINITE, INFINITE, INFINITE), Limits(FALSE, 1, INFINITE, INFINITE),
     Limits(FALSE, INFINITE, 1, INFINITE), Limits(FALSE, INFINITE, INFINITE, 2)}

\* the pairs (global limits, limits of the first spec) a run starts with: each limit on
\* its own, and pairs where a global and a local limit are both set
LimitProfiles ==
    {p \in GlobalProfiles \X LocalProfiles :
        \/ p[1] = Limits(FALSE, INFINITE, INFINITE, INFINITE)
        \/ p[2] = Limits(FALSE, INFINITE, INFINITE, INFINITE)
        \/ p[1].bIgnoreLimits /\ p[2].dwMaxSampleCount = 1
        \/ p[1].dwMaxSampleCount = 1 /\ p[2].dwlMaxBytesPerSample = 1
        \/ p[1].dwlMaxBytesPerSample = 2 /\ p[2].dwlMaxBytesTotal = 2}

AllCrypto == {"MD5", "SHA1", "SHA256"}
AllFuzzy == {"SSDEEP", "TLSH"}

Config(type, reportAll, crypto, fuzzy, flush) ==
    [OutputType |-> type, bReportAll |-> reportAll, CryptoHashAlgs |-> crypto,
     FuzzyHashAlgs |-> fuzzy, bFlushRegistry |-> flush]

Configs ==
    {Config("Archive", TRUE, AllCrypto, Undefined, TRUE),
     Config("Archive", FALSE, Undefined, AllFuzzy, FALSE),
     Config("Directory", TRUE, AllCrypto, AllFuzzy, FALSE),
     Config("Directory", FALSE, Undefined, Undefined, TRUE)}

SampleSpec(name, terms, type, limits) ==
    [Name |-> name, Terms |-> terms, Content |-> [Type |-> type], PerSampleLimits |-> limits]

-----------------------------------------------------------------------------
(* The run: Main::Run *)

NoEval == [Global |-> Limits(FALSE, 0, 0, 0), Local |-> Limits(FALSE, 0, 0, 0), DataSize |-> 0]

Init ==
    /\ pc = "start"
    /\ result = "running"
    /\ events = {}
    /\ config \in Configs
    /\ \E p \in LimitProfiles :
          /\ GlobalLimits = p[1]
          /\ listofSpecs = <<SampleSpec(<<"s", " ", "1">>, {"T1"}, "DATA", p[2]),
                          SampleSpec(<<>>, {"T2"}, "STRINGS",
                                     Limits(FALSE, INFINITE, INFINITE, INFINITE))>>
    /\ Samples = {}
    /\ SampleNames = {}
    /\ delivered = {}
    /\ collectPos = 0
    /\ written = <<>>
    /\ queue = <<>>
    /\ encLog = <<>>
    /\ files = {}
    /\ csv = <<>>
    /\ finalized = {}
    /\ reads = <<>>
    /\ evalIn = NoEval
    /\ evalOut = "none"

sinkVars == <<collectPos, written, queue, encLog, files, csv, finalized, reads>>
ingestVars == <<GlobalLimits, listofSpecs, Samples, SampleNames, delivered>>
evalVars == <<evalIn, evalOut>>

\* a Run with a single translation of exceptions, to E_ABORT
RunRegFlushKeys_SingleTranslation ==
    /\ pc = "start"
    /\ \E outcome \in IF config.bFlushRegistry THEN {"done", "failed", "threw"} ELSE {"done"} :
          CASE outcome = "done" -> pc' = "init" /\ UNCHANGED <<result, events>>
            [] outcome = "failed" ->
                  pc' = "init" /\ events' = events \cup {"flushfailed"} /\ UNCHANGED result
            [] outcome = "threw" ->
                  pc' = "done" /\ result' = "E_ABORT" /\ events' = events \cup {"flushthrew"}
    /\ UNCHANGED <<config, ingestVars, sinkVars, evalVars>>

\* if (config.bFlushRegistry) RegFlushKeys(): a failure is logged and the run goes on, an
\* exception ends the run with E_FAIL
RunRegFlushKeys ==
    /\ pc = "start"
    /\ \E outcome \in IF config.bFlushRegistry THEN {"done", "failed", "threw"} ELSE {"done"} :
          CASE outcome = "done" -> pc' = "init" /\ UNCHANGED <<result, events>>
            [] outcome = "failed" ->
                  pc' = "init" /\ events' = events \cup {"flushfailed"} /\ UNCHANGED result
            [] outcome = "threw" ->
                  pc' = "done" /\ result' = "E_FAIL" /\ events' = events \cup {"flushthrew"}
    /\ UNCHANGED <<config, ingestVars, sinkVars, evalVars>>

\* a Run that logs the failure of InitOutput and goes on
RunInitOutput_GoesOn ==
    /\ pc = "init"
    /\ pc' = "find"
    /\ \E ok \in BOOLEAN : events' = IF ok THEN events ELSE events \cup {"initfailed"}
    /\ UNCHANGED <<result, config, ingestVars, sinkVars, evalVars>>

\* InitOutput: the sink is set up, or the run returns the failure
RunInitOutput ==
    /\ pc = "init"
    /\ \E ok \in BOOLEAN :
          IF ok THEN pc' = "find" /\ UNCHANGED <<result, events>>
          ELSE pc' = "done" /\ result' = "E_POINTER" /\ events' = events \cup {"initfailed"}
    /\ UNCHANGED <<config, ingestVars, sinkVars, evalVars>>

\* catch (...) around InitOutput, FindMatchingSamples, CollectSamples and CloseOutput
RunThrows ==
    /\ pc \in {"init", "find", "collect", "close"}
    /\ pc' = "done"
    /\ result' = "E_ABORT"
    /\ events' = events \cup {"threw"}
    /\ UNCHANGED <<config, ingestVars, sinkVars, evalVars>>

SetIngestState(st) ==
    /\ GlobalLimits' = st.G
    /\ listofSpecs' = st.specs
    /\ Samples' = st.Samples
    /\ SampleNames' = st.SampleNames

\* the finder calls onMatchCb with one match
OnMatch ==
    /\ pc = "find"
    /\ \E mid \in MatchIds :
          /\ mid \in delivered \/ Cardinality(delivered) < MaxMatches
          /\ SetIngestState(onMatchCb(mid, config,
                                      [G |-> GlobalLimits, specs |-> listofSpecs,
                                       Samples |-> Samples, SampleNames |-> SampleNames]))
          /\ delivered' = delivered \cup {mid}
    /\ UNCHANGED <<pc, result, events, config, sinkVars, evalVars>>

\* FileFinder.Find returns; FindMatchingSamples returns S_OK
FindReturns ==
    /\ pc = "find"
    /\ pc' = "collect"
    /\ UNCHANGED <<result, events, config, ingestVars, sinkVars, evalVars>>

SinkState ==
    [csv |-> csv, finalized |-> finalized, reads |-> reads, queue |-> queue,
     encLog |-> encLog, files |-> files]

SetSinkState(st) ==
    /\ csv' = st.csv
    /\ finalized' = st.finalized
    /\ reads' = st.reads
    /\ queue' = st.queue
    /\ encLog' = st.encLog
    /\ files' = st.files

\* a range-for that walks the set from its end
NextSample_FromEnd == SortedSamples(Samples)[Cardinality(Samples) - collectPos]

\* the sample the range-for of WriteSamples is at
NextSample == SortedSamples(Samples)[collectPos + 1]

\* one iteration of WriteSamples(compressor, samples)
WriteSampleArchive ==
    /\ pc = "collect"
    /\ config.OutputType = "Archive"
    /\ collectPos < Cardinality(Samples)
    /\ \E sample \in {NextSample} :
          /\ \E outcome \in ArchiveOutcomes(sample) :
                SetSinkState(ArchiveWriteSample(sample, outcome, config, Samples, SinkState))
          /\ written' = Append(written, SampleKey(sample))
    /\ collectPos' = collectPos + 1
    /\ UNCHANGED <<pc, result, events, config, ingestVars, evalVars>>

\* one iteration of WriteSamples(outputDir, samples)
WriteSampleDirectory ==
    /\ pc = "collect"
    /\ config.OutputType = "Directory"
    /\ collectPos < Cardinality(Samples)
    /\ \E sample \in {NextSample} :
          /\ sample.CopyStream
          /\ \E outcome \in DirectoryOutcomes(sample) :
                SetSinkState(DirectoryWriteSample(sample, outcome, config, SinkState))
          /\ written' = Append(written, SampleKey(sample))
    /\ collectPos' = collectPos + 1
    /\ UNCHANGED <<pc, result, events, config, ingestVars, evalVars>>

\* WriteSamples(outputDir, samples) on a sample without copy-stream: a null pointer is
\* dereferenced, by WriteSample (*sample.CopyStream) once the directory exists, or by
\* WriteSamples (sample.CopyStream->GetSize()) after WriteSample returned S_OK for an
\* off-limits sample
WriteSampleDirectoryNullStream ==
    /\ pc = "collect"
    /\ config.OutputType = "Directory"
    /\ collectPos < Cardinality(Samples)
    /\ \E sample \in {NextSample} :
          /\ ~sample.CopyStream
          /\ written' = Append(written, SampleKey(sample))
          /\ \E outcome \in IF sample.OffLimits THEN {"fault"} ELSE {"dirfail", "openfail", "fault"} :
                IF outcome = "fault"
                THEN /\ pc' = "done"
                     /\ result' \in {"E_ABORT", "crashed"}
                     /\ events' = events \cup {"fault"}
                     /\ files' = IF sample.OffLimits THEN files
                                 ELSE files \cup {[key |-> SampleKey(sample),
                                                   name |-> sample.SampleName, complete |-> FALSE]}
                     /\ UNCHANGED collectPos
                ELSE /\ collectPos' = collectPos + 1
                     /\ UNCHANGED <<pc, result, events, files>>
    /\ UNCHANGED <<config, ingestVars, queue, encLog, csv, finalized, reads, evalVars>>

\* the loop of WriteSamples ends; CollectSamples returns S_OK
CollectReturns ==
    /\ pc = "collect"
    /\ collectPos = Cardinality(Samples)
    /\ pc' = "close"
    /\ UNCHANGED <<result, events, config, ingestVars, sinkVars, evalVars>>

\* a CloseArchiveOutput that completes the archive before it adds the two reports
FinishArchive_CompleteFirst(st) ==
    [st EXCEPT !.encLog =
        Append(@, [op |-> "Complete", key |-> <<>>, name |-> <<>>])
        \o (IF st.csv # <<>>
            THEN <<[op |-> "AddStream", key |-> <<>>, name |-> <<"GetThis.csv">>,
                    rows |-> Len(st.csv)]>> ELSE <<>>)
        \o <<[op |-> "AddStream", key |-> <<>>, name |-> <<"GetThis.log">>]>>]

\* the AddStream calls for GetThis.csv and GetThis.log, then Complete; rows: the rows the
\* table stream holds when it is handed to the encoder
FinishArchive(st) ==
    [st EXCEPT !.encLog =
        (IF st.csv # <<>>
         THEN Append(@, [op |-> "AddStream", key |-> <<>>, name |-> <<"GetThis.csv">>,
                         rows |-> Len(st.csv)])
         ELSE @)
        \o <<[op |-> "AddStream", key |-> <<>>, name |-> <<"GetThis.log">>],
             [op |-> "Complete", key |-> <<>>, name |-> <<>>]>>]

\* a CloseArchiveOutput that adds the reports and completes the archive before it flushes
\* the queue of the encoder
CloseArchiveOutput_FlushLast ==
    /\ pc = "close"
    /\ config.OutputType = "Archive"
    /\ SetSinkState(Only({ConsumeQueue(queue, 1, Samples, config,
                             [f EXCEPT !.encLog = Append(@, [op |-> "FlushQueue", key |-> <<>>, name |-> <<>>])]) :
                          f \in {FinishArchive(SinkState)}}))
    /\ pc' = "done"
    /\ result' = "S_OK"
    /\ UNCHANGED <<events, config, ingestVars, collectPos, written, evalVars>>

\* CloseArchiveOutput: FlushQueue, GetThis.csv, GetThis.log, Complete; Run logs a failure
\* of CloseOutput and returns S_OK all the same
CloseArchiveOutput ==
    /\ pc = "close"
    /\ config.OutputType = "Archive"
    /\ SetSinkState(FinishArchive(
          ConsumeQueue(queue, 1, Samples, config,
                       [SinkState EXCEPT !.encLog = Append(@, [op |-> "FlushQueue", key |-> <<>>, name |-> <<>>])])))
    /\ pc' = "done"
    /\ result' = "S_OK"
    /\ UNCHANGED <<events, config, ingestVars, collectPos, written, evalVars>>

\* CloseDirectoryOutput: flush and close the table writer; Run logs a failure of
\* CloseOutput and returns S_OK all the same
CloseDirectoryOutput ==
    /\ pc = "close"
    /\ config.OutputType = "Directory"
    /\ pc' = "done"
    /\ result' = "S_OK"
    /\ UNCHANGED <<events, config, ingestVars, sinkVars, evalVars>>

Next ==
    \/ RunRegFlushKeys
    \/ RunInitOutput
    \/ RunThrows
    \/ OnMatch
    \/ FindReturns
    \/ WriteSampleArchive
    \/ WriteSampleDirectory
    \/ WriteSampleDirectoryNullStream
    \/ CollectReturns
    \/ CloseArchiveOutput
    \/ CloseDirectoryOutput

Spec == Init /\ [][Next]_vars

-----------------------------------------------------------------------------
(* Limit evaluation on its own: SampleLimitStatus applied to every combination of
   limits, accumulators and data size *)

EvalLimits(ignore, maxCount, accCount, maxPerSample, maxTotal, accBytes) ==
    [Limits(ignore, maxCount, maxPerSample, maxTotal) EXCEPT
        !.dwAccumulatedSampleCount = accCount, !.dwlAccumulatedBytesTotal = accBytes]

EvalGlobals ==
    {EvalLimits(i, mc, ac, mp, mt, ab) :
        i \in BOOLEAN, mc \in {1, INFINITE}, ac \in {0, 1},
        mp \in {2, INFINITE}, mt \in {5, INFINITE}, ab \in {0, 4}}

EvalLocals ==
    {EvalLimits(FALSE, mc, ac, mp, mt, ab) :
        mc \in {1, INFINITE}, ac \in {0, 1},
        mp \in {1, INFINITE}, mt \in {2, INFINITE}, ab \in {0, 2}}

EvalSizes == {1, 2, 4, BytesMod - 1}

InitLimits ==
    /\ pc = "eval"
    /\ result = "running"
    /\ events = {}
    /\ config \in {Config("Archive", FALSE, Undefined, Undefined, FALSE)}
    /\ \E g \in EvalGlobals, l \in EvalLocals, reached \in BOOLEAN :
          /\ GlobalLimits = [g EXCEPT !.bMaxBytesTotalReached = reached]
          /\ listofSpecs = <<SampleSpec(<<>>, {"T1"}, "DATA",
                                        [l EXCEPT !.bMaxSampleCountReached = reached])>>
    /\ Samples = {}
    /\ SampleNames = {}
    /\ delivered = {}
    /\ collectPos = 0
    /\ written = <<>>
    /\ queue = <<>>
    /\ encLog = <<>>
    /\ files = {}
    /\ csv = <<>>
    /\ finalized = {}
    /\ reads = <<>>
    /\ evalIn = NoEval
    /\ evalOut = "none"

\* LimitStatus status = SampleLimitStatus(GlobalLimits, aSpecIt->PerSampleLimits, dwlDataSize)
Evaluate ==
    /\ pc = "eval"
    /\ \E size \in EvalSizes :
          /\ evalIn' = [Global |-> GlobalLimits, Local |-> listofSpecs[1].PerSampleLimits,
                        DataSize |-> size]
          /\ evalOut' = SampleLimitStatus(GlobalLimits, listofSpecs[1].PerSampleLimits, size)
    /\ pc' = "evaluated"
    /\ UNCHANGED <<result, events, config, ingestVars, sinkVars>>

\* the switch (status) that follows, for either result of AddSamplesForMatch
ApplyStatus ==
    /\ pc = "evaluated"
    /\ \E hr \in {"S_OK", "S_FALSE"} :
          \E st \in {UpdateLimits(evalOut, hr, evalIn.DataSize,
                                  [G |-> GlobalLimits, L |-> listofSpecs[1].PerSampleLimits,
                                   Samples |-> Samples, SampleNames |-> SampleNames])} :
             /\ GlobalLimits' = st.G
             /\ listofSpecs' = [listofSpecs EXCEPT ![1].PerSampleLimits = st.L]
    /\ pc' = "updated"
    /\ UNCHANGED <<result, events, config, Samples, SampleNames, delivered, sinkVars, evalVars>>

NextLimits == Evaluate \/ ApplyStatus

SpecLimits == InitLimits /\ [][NextLimits]_vars

-----------------------------------------------------------------------------
(* Stream chaining on its own: the chain Main::ConfigureSampleStreams builds for every
   content type and hash selection, read to EOF. "." stands for a byte that is not
   printable. *)

\* the stream the chain starts from: switch (sampleRef.Content.Type)
BaseStream_AlwaysData(content) == "DataStream"

BaseStream(content) ==
    CASE content.Type = "DATA" -> "DataStream"
      [] content.Type = "STRINGS" -> "StringsStream"
      [] content.Type = "RAW" -> "RawStream"
      [] OTHER -> "DataStream"

\* the chain, upstream first: stream, then HashStream, then FuzzyHashStream; the last one
\* is sampleRef.CopyStream
StreamChain(content, cfg) ==
    <<BaseStream(content)>>
    \o (IF cfg.CryptoHashAlgs # Undefined THEN <<"CryptoHashStream">> ELSE <<>>)
    \o (IF cfg.FuzzyHashAlgs # Undefined THEN <<"FuzzyHashStream">> ELSE <<>>)

\* the MinChars OpenForStrings is called with
StringsMinChars(content, cfg) ==
    IF content.MaxChars = 0 /\ content.MinChars = 0 THEN cfg.MinChars ELSE content.MinChars

\* a run of printable bytes is written, followed by a newline, when it is long enough
FlushRun(run, min) == IF run # <<>> /\ Len(run) >= min THEN run \o <<"\n">> ELSE <<>>

\* StringsStream: the printable runs of at least min bytes
RECURSIVE StringsRuns(_, _, _)
StringsRuns(bytes, run, min) ==
    IF bytes = <<>> THEN FlushRun(run, min)
    ELSE (IF Head(bytes) = "." THEN FlushRun(run, min) ELSE <<>>)
         \o StringsRuns(Tail(bytes), IF Head(bytes) = "." THEN <<>> ELSE Append(run, Head(bytes)), min)

\* what the first stream of the chain yields when read to EOF
ReadBase(base, in) ==
    CASE base = "DataStream" -> in.Data
      [] base = "RawStream" -> in.Raw
      [] OTHER -> StringsRuns(in.Data, <<>>, StringsMinChars(in.Content, in.cfg))

\* reading stream i of the chain to EOF: a hash reader reads its upstream, feeds the bytes
\* to its digests and hands them on; seen lists what each reader was fed
RECURSIVE ReadChain(_, _, _)
ReadChain(chain, i, in) ==
    IF i = 1 THEN [bytes |-> ReadBase(chain[1], in), seen |-> <<>>]
    ELSE Only({[bytes |-> up.bytes,
                seen |-> Append(up.seen, [reader |-> chain[i], bytes |-> up.bytes])] :
               up \in {ReadChain(chain, i - 1, in)}})

StreamInputs ==
    [Content : [Type : {"DATA", "STRINGS", "RAW", "INVALID"}, MinChars : {0, 2}, MaxChars : {0}]
               \cup [Type : {"STRINGS"}, MinChars : {3}, MaxChars : {8}],
     cfg : [CryptoHashAlgs : {Undefined, AllCrypto}, FuzzyHashAlgs : {Undefined, AllFuzzy},
            MinChars : {1}],
     Data : {<<>>, <<"A", "B">>, <<"A", ".", "B", "A", "B">>, <<".", "A", "B", "A", ".">>},
     Raw : {<<"A">>, <<"B", ".", "B">>},
     OpenFails : {"none", "strings", "hash", "fuzzy"}]

NoStreams == [hr |-> "none", chain |-> <<>>, bytes |-> <<>>, seen |-> <<>>]

InitStreams ==
    /\ pc = "streams"
    /\ result = "running"
    /\ events = {}
    /\ config \in {Config("Archive", FALSE, Undefined, Undefined, FALSE)}
    /\ GlobalLimits = Limits(FALSE, INFINITE, INFINITE, INFINITE)
    /\ listofSpecs = <<>>
    /\ Samples = {}
    /\ SampleNames = {}
    /\ delivered = {}
    /\ collectPos = 0
    /\ written = <<>>
    /\ queue = <<>>
    /\ encLog = <<>>
    /\ files = {}
    /\ csv = <<>>
    /\ finalized = {}
    /\ reads = <<>>
    /\ evalIn \in StreamInputs
    /\ evalOut = NoStreams

\* the sample ConfigureSampleStreams is called on
StreamSample(in) ==
    [DraftSample("NoLimits", "M1", MatchOf("M1"), 1) EXCEPT
        !.Content = [Type |-> in.Content.Type], !.SampleName = <<"n">>]

\* hr = ConfigureSampleStreams(sampleRef)
ConfigureStreams ==
    /\ pc = "streams"
    /\ \E r \in {ConfigureSampleStreams(StreamSample(evalIn),
                                        Attr(0, <<>>, Len(evalIn.Data), evalIn.OpenFails),
                                        evalIn.cfg)} :
          evalOut' = [NoStreams EXCEPT
                         !.hr = r.hr,
                         !.chain = IF r.sampleRef.CopyStream
                                   THEN StreamChain(evalIn.Content, evalIn.cfg) ELSE <<>>]
    /\ pc' = "configured"
    /\ UNCHANGED <<result, events, config, ingestVars, sinkVars, evalIn>>

\* the copy-stream is read to EOF
ReadToEOF ==
    /\ pc = "configured"
    /\ evalOut.chain # <<>>
    /\ \E r \in {ReadChain(evalOut.chain, Len(evalOut.chain), evalIn)} :
          evalOut' = [evalOut EXCEPT !.bytes = r.bytes, !.seen = r.seen]
    /\ pc' = "read"
    /\ UNCHANGED <<result, events, config, ingestVars, sinkVars, evalIn>>

NextStreams == ConfigureStreams \/ ReadToEOF

SpecStreams == InitStreams /\ [][NextStreams]_vars

-----------------------------------------------------------------------------
(* Ingestion on its own: Main::AddSamplesForMatch applied to a match, on the registry
   an earlier match has left *)

\* the matches of the finder, and a match of the unnamed stream alone of the file of M3
IngestPool == MatchIds \cup {"M10"}

IngestSpec == SampleSpec(<<>>, {"T1", "T2"}, "DATA", Limits(FALSE, INFINITE, INFINITE, INFINITE))

IngestInputs ==
    [prior : IngestPool \cup {"none"}, mid : IngestPool,
     status : {"SampleWithinLimits", "GlobalMaxBytesTotal"},
     cfg : {Config("Archive", FALSE, Undefined, Undefined, FALSE),
            Config("Directory", TRUE, AllCrypto, Undefined, FALSE)}]

\* the registry and the used names after the earlier match
PriorRegistry(in) ==
    IF in.prior = "none" THEN [hr |-> "S_OK", Samples |-> {}, SampleNames |-> {}]
    ELSE AddSamplesForMatch("SampleWithinLimits", IngestSpec, in.prior, MatchOf(in.prior),
                            in.cfg, {}, {})

InitIngest ==
    /\ pc = "ingest"
    /\ result = "running"
    /\ events = {}
    /\ config \in {Config("Archive", FALSE, Undefined, Undefined, FALSE)}
    /\ GlobalLimits = Limits(FALSE, INFINITE, INFINITE, INFINITE)
    /\ listofSpecs = <<>>
    /\ Samples = {}
    /\ SampleNames = {}
    /\ delivered = {}
    /\ collectPos = 0
    /\ written = <<>>
    /\ queue = <<>>
    /\ encLog = <<>>
    /\ files = {}
    /\ csv = <<>>
    /\ finalized = {}
    /\ reads = <<>>
    /\ evalIn \in IngestInputs
    /\ evalOut = "none"

\* hr = AddSamplesForMatch(status, aSpec, aMatch)
Ingest ==
    /\ pc = "ingest"
    /\ \E before \in {PriorRegistry(evalIn)} :
          \E r \in {AddSamplesForMatch(evalIn.status, IngestSpec, evalIn.mid, MatchOf(evalIn.mid),
                                       evalIn.cfg, before.Samples, before.SampleNames)} :
             evalOut' = [before |-> before.Samples, hr |-> r.hr, Samples |-> r.Samples,
                         SampleNames |-> r.SampleNames]
    /\ pc' = "ingested"
    /\ UNCHANGED <<result, events, config, ingestVars, sinkVars, evalIn>>

NextIngest == Ingest

SpecIngest == InitIngest /\ [][NextIngest]_vars

-----------------------------------------------------------------------------
(* Naming on its own: Main::CreateSampleFileName applied to a content type, a file-name
   record, a data name and an index *)

\* a file name of 250 characters (NTFS allows 255)
LongFileName == [i \in 1..250 |-> "a"]

NameInputs ==
    [content : [Type : {"DATA", "STRINGS", "RAW", "INVALID"}],
     pFileName : {NullFileName, NameA.FILENAME, NameB.FILENAME,
                  FileNameRec(10, 255, 2, <<"c", " ">>), FileNameRec(1, 5, 250, LongFileName)},
     DataName : {<<>>, <<"1">>, <<"x", "#">>},
     idx : {0, 1, 2, 12}]

\* the content of SampleFileName before the call
NameBefore == <<"o", "l", "d">>

InitNames ==
    /\ pc = "name"
    /\ result = "running"
    /\ events = {}
    /\ config \in {Config("Archive", FALSE, Undefined, Undefined, FALSE)}
    /\ GlobalLimits = Limits(FALSE, INFINITE, INFINITE, INFINITE)
    /\ listofSpecs = <<>>
    /\ Samples = {}
    /\ SampleNames = {}
    /\ delivered = {}
    /\ collectPos = 0
    /\ written = <<>>
    /\ queue = <<>>
    /\ encLog = <<>>
    /\ files = {}
    /\ csv = <<>>
    /\ finalized = {}
    /\ reads = <<>>
    /\ evalIn \in NameInputs
    /\ evalOut = "none"

\* hr = CreateSampleFileName(content, pFileName, DataName, idx, SampleFileName); when the
\* invalid parameter handler is invoked it ends the process (the default handler) or returns
MakeName ==
    /\ pc = "name"
    /\ \E r \in {CreateSampleFileName(evalIn.content, evalIn.pFileName, evalIn.DataName,
                                      evalIn.idx, NameBefore)} :
          \E terminated \in IF r.invalid THEN BOOLEAN ELSE {FALSE} :
             evalOut' = IF terminated THEN [hr |-> "terminated", SampleFileName |-> NameBefore]
                        ELSE [hr |-> r.hr, SampleFileName |-> r.SampleFileName]
    /\ pc' = "named"
    /\ UNCHANGED <<result, events, config, ingestVars, sinkVars, evalIn>>

NextNames == MakeName

SpecNames == InitNames /\ [][NextNames]_vars

-----------------------------------------------------------------------------
(* Properties *)

Range(q) == {q[i] : i \in 1..Len(q)}

\* the keys of the samples AddSamplesForMatch looks up for a match
KeysOfMatch(m) ==
    {<<m.VolumeSerial, m.FRN, m.MatchingAttributes[i].InstanceID>> :
        i \in 1..Len(m.MatchingAttributes)}

\* the callback gets as far as AddSamplesForMatch for the match
Ingested(m) == Len(m.MatchingAttributes) > 0 /\ FindSpec(listofSpecs, m.Term) # 0

EncoderSaw(op, key) == \E i \in 1..Len(encLog) : encLog[i].op = op /\ encLog[i].key = key

RowsFor(key, path) ==
    {i \in 1..Len(csv) : csv[i].key = key /\ csv[i].FullPathName = path}

NamesOfSample(s) ==
    UNION {Range(MatchOf(s.Matches[i]).MatchingNames) : i \in 1..Len(s.Matches)}

RunSucceeded == pc = "done" /\ result = "S_OK"

\* C1: no two distinct samples of the registry have the same
\* (volume-serial, frn, attribute-instance-id) key.
C1_UniqueKey == \A a, b \in Samples : SampleKey(a) = SampleKey(b) => a = b

\* two hard-linked matches of the same attribute were ingested and one sample holds the key
C1_Witness ==
    /\ delivered = {"M1", "M2"}
    /\ Cardinality({s \in Samples : SampleKey(s) = <<1, 1, 0>>}) = 1

\* C2: no two distinct samples of the registry have the same sample-name, also after
\* matches whose file-name record is absent.
C2_UniqueName == \A a, b \in Samples : a.SampleName = b.SampleName => a = b

\* C3: in both sinks nothing is appended to the archive, no file is created and no byte
\* is read into the sink for a sample with off-limits = true.
C3_OffLimitsNotWritten ==
    \A s \in Samples :
        s.OffLimits =>
            /\ \A i \in 1..Len(encLog) : encLog[i].key # SampleKey(s)
            /\ \A i \in 1..Len(queue) : queue[i].key # SampleKey(s)
            /\ \A f \in files : f.key # SampleKey(s)
            /\ \A i \in 1..Len(reads) :
                  reads[i].key = SampleKey(s) => reads[i].into \notin {"archive", "file"}

\* a finished run whose sink was handed an off-limits sample and also took another sample
C3_Witness ==
    /\ RunSucceeded
    /\ \E s \in Samples : s.OffLimits /\ SampleKey(s) \in Range(written)
    /\ \E i \in 1..Len(reads) : reads[i].into \in {"archive", "file"}

\* C4: in the Archive sink a row of a sample exists only once the encoder has consumed the
\* sample's entry, no (sample, matching-name) pair has two rows, and at the end of the run
\* every non-off-limits sample whose entry was appended has exactly one row per matching-name.
C4_RowAfterConsumed ==
    config.OutputType = "Archive" =>
        \A s \in Samples : \A name \in NamesOfSample(s) :
            /\ Cardinality(RowsFor(SampleKey(s), name.FullPathName)) <= 1
            /\ RowsFor(SampleKey(s), name.FullPathName) # {}
                  => EncoderSaw("Consumed", SampleKey(s))
            /\ (RunSucceeded /\ ~s.OffLimits /\ EncoderSaw("AddStream", SampleKey(s)))
                  => Cardinality(RowsFor(SampleKey(s), name.FullPathName)) = 1

\* a finished archive run with a two-name sample whose entry waited in the queue until
\* FlushQueue and that has its two rows
C4_Witness ==
    /\ RunSucceeded
    /\ config.OutputType = "Archive"
    /\ \E s \in Samples :
          /\ ~s.OffLimits
          /\ Cardinality(NamesOfSample(s)) = 2
          /\ \A name \in NamesOfSample(s) :
                Cardinality(RowsFor(SampleKey(s), name.FullPathName)) = 1
          /\ \E i, j \in 1..Len(encLog) :
                /\ i < j
                /\ encLog[i].op = "FlushQueue"
                /\ encLog[j].op = "Consumed" /\ encLog[j].key = SampleKey(s)

\* C5: when ignore-limits is set on the global limits, every sample of the registry has
\* off-limits = false.
C5_IgnoreLimits == GlobalLimits.bIgnoreLimits => \A s \in Samples : ~s.OffLimits

\* limits are ignored, more samples than max-sample-count are held and one is larger than
\* max-bytes-per-sample
C5_Witness ==
    /\ GlobalLimits.bIgnoreLimits
    /\ GlobalLimits.dwMaxSampleCount # INFINITE
    /\ Cardinality(Samples) > GlobalLimits.dwMaxSampleCount
    /\ \E s \in Samples : s.SampleSize > GlobalLimits.dwlMaxBytesPerSample

\* the checks of the limit evaluation, in the order of the contract
LimitChecks(G, L, size) ==
    <<[hit |-> G.bIgnoreLimits, status |-> "NoLimits"],
      [hit |-> G.dwMaxSampleCount # INFINITE /\ G.dwAccumulatedSampleCount >= G.dwMaxSampleCount,
       status |-> "GlobalSampleCountLimitReached"],
      [hit |-> L.dwMaxSampleCount # INFINITE /\ L.dwAccumulatedSampleCount >= L.dwMaxSampleCount,
       status |-> "LocalSampleCountLimitReached"],
      [hit |-> G.dwlMaxBytesPerSample # INFINITE /\ size > G.dwlMaxBytesPerSample,
       status |-> "GlobalMaxBytesPerSample"],
      [hit |-> G.dwlMaxBytesTotal # INFINITE
               /\ size + G.dwlAccumulatedBytesTotal > G.dwlMaxBytesTotal,
       status |-> "GlobalMaxBytesTotal"],
      [hit |-> L.dwlMaxBytesPerSample # INFINITE /\ size > L.dwlMaxBytesPerSample,
       status |-> "LocalMaxBytesPerSample"],
      [hit |-> L.dwlMaxBytesTotal # INFINITE
               /\ size + L.dwlAccumulatedBytesTotal > L.dwlMaxBytesTotal,
       status |-> "LocalMaxBytesTotal"]>>

FirstHit(checks) ==
    IF \A i \in 1..Len(checks) : ~checks[i].hit THEN "SampleWithinLimits"
    ELSE checks[CHOOSE i \in 1..Len(checks) :
                    checks[i].hit /\ \A j \in 1..(i - 1) : ~checks[j].hit].status

\* C6: the limit evaluation returns the status of the first check that triggers, in the
\* order ignore-limits, global count, local count, global per-sample, global total, local
\* per-sample, local total, and SampleWithinLimits if none triggers; a check whose max
\* is INFINITE never triggers. This holds for every data size and accumulator value.
C6_FirstTriggerWins ==
    pc = "evaluated" =>
        evalOut = FirstHit(LimitChecks(evalIn.Global, evalIn.Local, evalIn.DataSize))

StickyFlags(L) ==
    <<L.bMaxSampleCountReached, L.bMaxBytesPerSampleReached, L.bMaxBytesTotalReached>>

\* C7: once a sticky limit flag of the global limits or of a per-rule limits record is
\* true, it is true in every later state of the run.
C7_StickyFlags ==
    [][/\ \A i \in 1..3 : StickyFlags(GlobalLimits)[i] => StickyFlags(GlobalLimits')[i]
       /\ \A k \in 1..Len(listofSpecs) : \A i \in 1..3 :
             StickyFlags(listofSpecs[k].PerSampleLimits)[i]
                => StickyFlags(listofSpecs'[k].PerSampleLimits)[i]]_vars

\* a global flag was set by one match, another match was accepted, and the run has ended
C7_Witness ==
    /\ pc = "done"
    /\ GlobalLimits.bMaxBytesPerSampleReached
    /\ Cardinality(delivered) = 2
    /\ \E s, t \in Samples : s.Matches # t.Matches /\ s.OffLimits /\ ~t.OffLimits

Accumulators(L) == <<L.dwAccumulatedSampleCount, L.dwlAccumulatedBytesTotal>>

\* C8: no step of the run decreases an accumulator (sample-count, bytes-total) of the
\* global limits or of a per-rule limits record.
C8_AccumulatorsMonotonic ==
    [][/\ \A i \in 1..2 : Accumulators(GlobalLimits)[i] <= Accumulators(GlobalLimits')[i]
       /\ \A k \in 1..Len(listofSpecs) : \A i \in 1..2 :
             Accumulators(listofSpecs[k].PerSampleLimits)[i]
                <= Accumulators(listofSpecs'[k].PerSampleLimits)[i]]_vars

\* C9: after a successful run, every ingested match whose attribute key is held by a
\* sample that was reported has exactly one row for each of its names under that sample,
\* and the registry holds one sample for the key.
C9_RowPerHardLink ==
    RunSucceeded =>
        \A s \in Samples : \A mid \in delivered :
            (/\ Ingested(MatchOf(mid))
             /\ SampleKey(s) \in KeysOfMatch(MatchOf(mid))
             /\ \E i \in 1..Len(csv) : csv[i].key = SampleKey(s))
            => /\ Cardinality({t \in Samples : SampleKey(t) = SampleKey(s)}) = 1
               /\ \A name \in Range(MatchOf(mid).MatchingNames) :
                     Cardinality(RowsFor(SampleKey(s), name.FullPathName)) = 1

\* C10: after a successful run every off-limits sample has exactly one row per
\* matching-name, with the sample-name column empty, and no archive entry or file.
C10_OffLimitsReported ==
    RunSucceeded =>
        \A s \in Samples :
            s.OffLimits =>
                /\ \A name \in NamesOfSample(s) :
                      /\ Cardinality(RowsFor(SampleKey(s), name.FullPathName)) = 1
                      /\ \A i \in RowsFor(SampleKey(s), name.FullPathName) :
                            csv[i].SampleName.nothing
                /\ ~EncoderSaw("AddStream", SampleKey(s))
                /\ \A f \in files : f.key # SampleKey(s)

\* positions of the encoder operations that append the report called name
ReportAt(name) ==
    {i \in 1..Len(encLog) :
        encLog[i].op = "AddStream" /\ encLog[i].key = <<>> /\ encLog[i].name = <<name>>}

\* positions of the encoder operations on sample entries
SampleOpsAt == {i \in 1..Len(encLog) : encLog[i].key # <<>>}

PhaseRank(p) ==
    CASE p = "start" -> 0 [] p = "init" -> 1 [] p = "find" -> 2
      [] p = "collect" -> 3 [] p = "close" -> 4 [] OTHER -> 5

\* the keys in w are in the order of the registry, none left out before the last one
InRegistryOrder(w, S) ==
    /\ \A i, j \in 1..Len(w) : i < j => KeyLess(w[i], w[j])
    /\ \A i \in 1..Len(w) : \E s \in S : SampleKey(s) = w[i]
    /\ \A s \in S : (\A i \in 1..Len(w) : w[i] # SampleKey(s))
                       => \A i \in 1..Len(w) : KeyLess(w[i], SampleKey(s))

\* C12: the phases of a run follow each other in the order init_output,
\* find_matching_samples, collect_samples, close_output: the registry changes only while
\* the finder runs, the sink is touched only during collection and close (so never before
\* the finder has returned), and samples are passed to write in registry iteration order.
C12_PhasesOrdered ==
    [][/\ PhaseRank(pc) <= PhaseRank(pc')
       /\ <<Samples, SampleNames>>' # <<Samples, SampleNames>> => pc = "find"
       /\ sinkVars' # sinkVars => pc \in {"collect", "close"} /\ PhaseRank(pc') >= 3
       /\ written' # written => pc = "collect"
       /\ InRegistryOrder(written', Samples')]_vars

\* a finished run that passed three samples to the sink
C12_Witness == RunSucceeded /\ Len(written) = 3 /\ Cardinality(Samples) = 3

\* positions of the accepted appends of sample entries
SampleEntriesAt == {i \in SampleOpsAt : encLog[i].op = "AddStream"}

EncoderAcceptedAll == \A i \in 1..Len(encLog) : encLog[i].op # "AddStreamFailed"

\* C13: with the Archive sink and an encoder that accepted every append, at the end of a
\* run the sample entries of the archive are exactly one per sample with OffLimits = FALSE,
\* each under that sample's SampleName, and no two of them have the same name.
C13_OneEntryPerSample ==
    (RunSucceeded /\ config.OutputType = "Archive" /\ EncoderAcceptedAll) =>
        /\ \A s \in Samples :
              ~s.OffLimits
                 => Cardinality({i \in SampleEntriesAt : encLog[i].key = SampleKey(s)}) = 1
        /\ \A i \in SampleEntriesAt :
              \E s \in Samples :
                 ~s.OffLimits /\ SampleKey(s) = encLog[i].key /\ s.SampleName = encLog[i].name
        /\ \A i, j \in SampleEntriesAt : encLog[i].name = encLog[j].name => i = j

\* a finished archive run, every append accepted, with two samples in the archive and an
\* off-limits sample left out
C13_Witness ==
    /\ RunSucceeded /\ config.OutputType = "Archive" /\ EncoderAcceptedAll
    /\ Cardinality(SampleEntriesAt) = 2
    /\ \E s \in Samples : s.OffLimits

\* C14: when InitOutput fails the run returns that failure and does nothing more: the
\* finder is not called, no match is ingested, no sample is written, the sink is not closed.
C14_InitFailureStops ==
    "initfailed" \in events =>
        /\ pc = "done" /\ result = "E_POINTER"
        /\ delivered = {} /\ Samples = {} /\ SampleNames = {}
        /\ collectPos = 0 /\ written = <<>>
        /\ encLog = <<>> /\ queue = <<>> /\ files = {} /\ csv = <<>> /\ reads = <<>>

\* InitOutput has failed, after a registry flush that failed as well
C14_Witness == events = {"flushfailed", "initfailed"} /\ pc = "done"

\* the run got past FindMatchingSamples and no exception was thrown by the environment
CollectionEntered ==
    /\ pc \in {"close", "done"}
    /\ events \cap {"flushthrew", "initfailed", "threw"} = {}

\* C15: a failed write does not stop the loop of CollectSamples: once collection is over,
\* WriteSample has been called exactly once for every sample of the registry, whatever
\* the earlier calls did, and CollectSamples has returned success.
C15_EverySampleWritten ==
    CollectionEntered =>
        /\ Len(written) = Cardinality(Samples)
        /\ \A s \in Samples :
              Cardinality({i \in 1..Len(written) : written[i] = SampleKey(s)}) = 1
        /\ pc = "done" => result = "S_OK"

\* data size of the attribute a sample was made for
AttributeSize(s) == MatchOf(s.Matches[1]).MatchingAttributes[s.AttributeIndex + 1].DataSize

RECURSIVE SumOfSizes(_)
SumOfSizes(S) ==
    IF S = {} THEN 0
    ELSE Only({AttributeSize(s) + SumOfSizes(S \ {s}) : s \in {CHOOSE t \in S : TRUE}})

\* L2 is L1 with its accumulators grown by the samples of S, in the width of the counters
GrownBy(L1, L2, S) ==
    /\ L2.dwAccumulatedSampleCount = (L1.dwAccumulatedSampleCount + Cardinality(S)) % CountMod
    /\ L2.dwlAccumulatedBytesTotal = (L1.dwlAccumulatedBytesTotal + SumOfSizes(S)) % BytesMod

\* the samples a step inserts with OffLimits = FALSE
NewInLimits == {s \in Samples' \ Samples : ~s.OffLimits}

\* C16: a match callback grows the global accumulators and those of the matched spec by
\* one sample and by the data size of every attribute it inserts a new in-limits sample
\* for (k samples and the sum of the k data sizes for k such attributes) and leaves the
\* accumulators alone for duplicates and off-limits attributes; other specs do not change.
C16_AccumulatorsFollowInserts ==
    [][/\ GrownBy(GlobalLimits, GlobalLimits', NewInLimits)
       /\ \A k \in 1..Len(listofSpecs) :
             GrownBy(listofSpecs[k].PerSampleLimits, listofSpecs'[k].PerSampleLimits,
                     {s \in NewInLimits : FindSpec(listofSpecs, MatchOf(s.Matches[1]).Term) = k})]_vars

\* the statuses that report a limit, in the order of the flags of AllFlags
LimitStatuses ==
    <<"GlobalSampleCountLimitReached", "GlobalMaxBytesPerSample", "GlobalMaxBytesTotal",
      "LocalSampleCountLimitReached", "LocalMaxBytesPerSample", "LocalMaxBytesTotal">>

AllFlags(G, L) == StickyFlags(G) \o StickyFlags(L)

\* C17: when the evaluation for an attribute returns a limit status, the switch that
\* follows leaves the flag of that status true, on the global limits for the Global*
\* statuses and on the matched spec's limits for the Local* statuses, and changes no other
\* flag and no accumulator.
C17_StatusSetsItsFlag ==
    [][pc = "evaluated" =>
          \A i \in 1..6 :
             evalOut = LimitStatuses[i] =>
                /\ AllFlags(GlobalLimits', listofSpecs'[1].PerSampleLimits)[i]
                /\ \A j \in (1..6) \ {i} :
                      AllFlags(GlobalLimits', listofSpecs'[1].PerSampleLimits)[j]
                         = AllFlags(GlobalLimits, listofSpecs[1].PerSampleLimits)[j]
                /\ Accumulators(GlobalLimits') = Accumulators(GlobalLimits)
                /\ Accumulators(listofSpecs'[1].PerSampleLimits)
                      = Accumulators(listofSpecs[1].PerSampleLimits)]_vars

\* the local total limit was reported and recorded on the spec's limits, next to flags
\* that were set before
C17_Witness ==
    /\ pc = "updated"
    /\ evalOut = "LocalMaxBytesTotal"
    /\ AllFlags(GlobalLimits, listofSpecs[1].PerSampleLimits)
          = <<FALSE, FALSE, TRUE, TRUE, FALSE, TRUE>>
    /\ listofSpecs[1].PerSampleLimits.dwlAccumulatedBytesTotal = 2

\* C18: no sample-name stored in the registry, spec-name prefix included, contains a
\* whitespace character, a ':' or a '#'.
C18_NameCharacters ==
    \A s \in Samples : \A i \in 1..Len(s.SampleName) :
        ~iswspace(s.SampleName[i]) /\ s.SampleName[i] \notin {":", "#"}

\* the bytes of the stream the content type selects
BaseBytes(in) ==
    CASE in.Content.Type = "RAW" -> in.Raw
      [] in.Content.Type = "STRINGS" ->
            StringsRuns(in.Data, <<>>, StringsMinChars(in.Content, in.cfg))
      [] OTHER -> in.Data

\* the hash readers selected, crypto before fuzzy
ReadersOf(cfg) ==
    (IF cfg.CryptoHashAlgs # Undefined THEN <<"CryptoHashStream">> ELSE <<>>)
    \o (IF cfg.FuzzyHashAlgs # Undefined THEN <<"FuzzyHashStream">> ELSE <<>>)

\* C19: for every content type and every selection of hash algorithms, the copy-stream
\* read to EOF yields exactly the bytes of the base stream (data stream for DATA, raw
\* stream for RAW, output of the strings extractor for STRINGS); the readers are chained in
\* the order base, crypto-hash, fuzzy-hash, and each reader is fed exactly those bytes.
C19_CopyStreamIsBase ==
    pc = "read" =>
        /\ evalOut.bytes = BaseBytes(evalIn)
        /\ SubSeq(evalOut.chain, 2, Len(evalOut.chain)) = ReadersOf(evalIn.cfg)
        /\ Len(evalOut.seen) = Len(ReadersOf(evalIn.cfg))
        /\ \A i \in 1..Len(evalOut.seen) :
              /\ evalOut.seen[i].reader = ReadersOf(evalIn.cfg)[i]
              /\ evalOut.seen[i].bytes = BaseBytes(evalIn)

\* a RAW sample with both readers chained, whose raw bytes differ from its data bytes
C19_Witness ==
    /\ pc = "read"
    /\ evalIn.Content.Type = "RAW"
    /\ Len(evalOut.chain) = 3
    /\ evalOut.bytes = <<"B", ".", "B">>
    /\ evalIn.Data = <<"A", "B">>

\* the status the statement gives a finished run when exceptions have one translation
StatusWithoutFlush ==
    IF "initfailed" \in events THEN {"E_POINTER"}
    ELSE IF events \cap {"threw", "fault"} # {} THEN {"E_ABORT"}
    ELSE {"S_OK"}

StatusOf(ev) ==
    IF "flushthrew" \in ev THEN {"E_FAIL"}
    ELSE IF "initfailed" \in ev THEN {"E_POINTER"}
    ELSE IF "threw" \in ev THEN {"E_ABORT"}
    ELSE IF "fault" \in ev THEN {"E_ABORT", "crashed"}
    ELSE {"S_OK"}

FoundPresent(before, aMatch, i) ==
    \/ \E s \in before : SampleKey(s) = <<aMatch.VolumeSerial, aMatch.FRN,
                                          aMatch.MatchingAttributes[i].InstanceID>>
    \/ \E h \in 1..(i - 1) :
          aMatch.MatchingAttributes[h].InstanceID = aMatch.MatchingAttributes[i].InstanceID

\* C21: AddSamplesForMatch returns S_FALSE if at least one attribute of the match, at any
\* position in MatchingAttributes, was found already present in the registry, and S_OK
\* otherwise.
C21_AlreadyPresentIfAnyDuplicate ==
    pc = "ingested" =>
        evalOut.hr = IF \E i \in 1..Len(MatchOf(evalIn.mid).MatchingAttributes) :
                           FoundPresent(evalOut.before, MatchOf(evalIn.mid), i)
                     THEN "S_FALSE" ELSE "S_OK"

\* the parts the name is built from
PPP(rec) ==
    Hex(rec.ParentDirectory.SequenceNumber, 4) \o Hex(rec.ParentDirectory.SegmentNumberHighPart, 4)
    \o Hex(rec.ParentDirectory.SegmentNumberLowPart, 8)

NAME(rec) == [i \in 1..rec.FileNameLength |-> rec.FileName[i]]

TAG(content) ==
    IF content.Type = "DATA" THEN <<"d", "a", "t", "a">>
    ELSE IF content.Type = "STRINGS" THEN <<"s", "t", "r", "i", "n", "g", "s">>
    ELSE IF content.Type = "RAW" THEN <<"r", "a", "w">>
    ELSE <<>>

U == <<"_">>

\* PPP_NAME_TAG, PPP__NAME_DATA_TAG, PPP__NAME_IDX_TAG, PPP_NAME_DATA_IDX_TAG
TemplateName(in) ==
    IF in.idx = 0 /\ in.DataName = <<>>
    THEN PPP(in.pFileName) \o U \o NAME(in.pFileName) \o U \o TAG(in.content)
    ELSE IF in.idx = 0
    THEN PPP(in.pFileName) \o U \o U \o NAME(in.pFileName) \o U \o in.DataName \o U \o TAG(in.content)
    ELSE IF in.DataName = <<>>
    THEN PPP(in.pFileName) \o U \o U \o NAME(in.pFileName) \o U \o Dec(in.idx) \o U \o TAG(in.content)
    ELSE PPP(in.pFileName) \o U \o NAME(in.pFileName) \o U \o in.DataName \o U \o Dec(in.idx)
         \o U \o TAG(in.content)

\* the same text, a whitespace, ':' or '#' of the template being written '_'
SameButRemapped(name, template) ==
    /\ Len(name) = Len(template)
    /\ \A i \in 1..Len(name) :
          name[i] = IF template[i] \in {" ", "\t", "\n", "\r", "\f", ":", "#"} THEN "_"
                    ELSE template[i]

\* C22: CreateSampleFileName builds the name from the three fixed-width hex fields of the
\* parent-directory reference, the file name truncated to its length, the data name when
\* non-empty, the index when idx > 0 and the content tag, with the template PPP_NAME_TAG,
\* PPP__NAME_DATA_TAG, PPP__NAME_IDX_TAG or PPP_NAME_DATA_IDX_TAG (the remapped characters
\* written '_'), and fails without producing a name when the file-name record is absent.
C22_NameTemplate ==
    pc = "named" =>
        IF evalIn.pFileName.isNull
        THEN FAILED(evalOut.hr) /\ evalOut.SampleFileName = NameBefore
        ELSE evalOut.hr = "S_OK" /\ SameButRemapped(evalOut.SampleFileName, TemplateName(evalIn))

\* the name a call returns, when it returns one
NamesOfCall(content, pFileName, DataName, idx) ==
    {r.SampleFileName : r \in {c \in {CreateSampleFileName(content, pFileName, DataName, idx,
                                                           NameBefore)} : c.hr = "S_OK"}}

\* C23: CreateSampleFileName is deterministic and collision-free: for a fixed content type
\* and file-name record, two calls with different (data-name, idx) pairs never return the
\* same name, and two calls with the same arguments return the same name.
C23_CollisionFree ==
    pc = "named" /\ evalOut.hr = "S_OK" =>
        \A d \in {<<>>, <<"1">>, <<"x", "#">>}, i \in {0, 1, 2, 12} :
            IF <<d, i>> = <<evalIn.DataName, evalIn.idx>>
            THEN NamesOfCall(evalIn.content, evalIn.pFileName, d, i) = {evalOut.SampleFileName}
            ELSE evalOut.SampleFileName \notin NamesOfCall(evalIn.content, evalIn.pFileName, d, i)

\* the names CreateSampleFileName can generate for the sample from a matching name
GeneratedFor(s, name) ==
    UNION {NamesOfCall(s.Content, name.FILENAME,
                       MatchOf(s.Matches[1]).MatchingAttributes[s.AttributeIndex + 1].AttrName, idx)
           : idx \in 0..(2 * MaxMatches)}

\* the stored name: the spec name and a backslash, if any, then the generated name
EndsWithGenerated(s, name) ==
    \E g \in GeneratedFor(s, name) :
        /\ Len(g) <= Len(s.SampleName)
        /\ SubSeq(s.SampleName, Len(s.SampleName) - Len(g) + 1, Len(s.SampleName)) = g

LastName(s) ==
    MatchOf(s.Matches[1]).MatchingNames[Len(MatchOf(s.Matches[1]).MatchingNames)]

\* the pairs (new sample, position of a matching-name), from position first on
NamePairs(N, first) ==
    UNION {{<<s, j>> : j \in first..Len(MatchOf(s.Matches[1]).MatchingNames)} : s \in N}

\* C24: when a match callback inserts new samples for a match with n >= 1 matching-names,
\* n names that were not in SampleNames are reserved for each new sample, the stored
\* sample-name is the one generated for the last matching-name, and the n-1 earlier ones
\* stay in SampleNames without belonging to any sample; every sample-name of the registry
\* is in SampleNames and SampleNames never shrinks.
C24_NamesReserved ==
    [][/\ SampleNames \subseteq SampleNames'
       /\ \A s \in Samples' : s.SampleName \in SampleNames'
       /\ \A s \in Samples' \ Samples :
             /\ s.SampleName \in SampleNames' \ SampleNames
             /\ EndsWithGenerated(s, LastName(s))
       /\ Cardinality(SampleNames' \ SampleNames)
             = Cardinality(NamePairs(Samples' \ Samples, 1))
       /\ Cardinality((SampleNames' \ SampleNames) \ {s.SampleName : s \in Samples' \ Samples})
             = Cardinality(NamePairs(Samples' \ Samples, 2))
      ]_vars

\* C25: a sample whose stream construction failed at ingestion is still inserted into the
\* registry, and once WriteSample has been called for it and the run is over there is a
\* row for it, one per matching-name, in the Archive sink as well as in the Directory sink.
C25_FailedStreamReported ==
    /\ \A mid \in delivered :
          Ingested(MatchOf(mid)) => \A k \in KeysOfMatch(MatchOf(mid)) : \E s \in Samples : SampleKey(s) = k
    /\ pc = "done" =>
          \A s \in Samples :
              (~s.CopyStream /\ ~s.OffLimits /\ SampleKey(s) \in Range(written)) =>
                  \A name \in NamesOfSample(s) :
                      Cardinality(RowsFor(SampleKey(s), name.FullPathName)) = 1

\* C26: in a run with bReportAll and crypto-hash algorithms configured, the copy-stream of
\* every off-limits sample WriteSample was called for has been read into the null sink
\* and its hashes extracted by the end of the run, and nothing of it is in the sink.
C26_OffLimitsHashed ==
    (RunSucceeded /\ config.bReportAll /\ config.CryptoHashAlgs # Undefined) =>
        \A s \in Samples :
            (s.OffLimits /\ s.CopyStream) =>
                /\ \E i \in 1..Len(reads) : reads[i] = [key |-> SampleKey(s), into |-> "null"]
                /\ SampleKey(s) \in finalized
                /\ ~EncoderSaw("AddStream", SampleKey(s))
                /\ \A f \in files : f.key # SampleKey(s)

\* the stream copy to <outdir>/<sample-name> has returned with success
CopyReturned(s) ==
    /\ \E f \in files : f.key = SampleKey(s) /\ f.name = s.SampleName /\ f.complete
    /\ \E i \in 1..Len(reads) : reads[i] = [key |-> SampleKey(s), into |-> "file"]

\* C27: in the Directory sink, for every sample with OffLimits = FALSE, the hashes are
\* finalized and the rows written only once the stream copy to <outdir>/<sample-name> has
\* returned, the digest columns of a row hold the finalized hashes, and there is exactly
\* one row per (sample, matching-name) pair once the copy has returned, none before.
C27_DirectoryRowAfterCopy ==
    config.OutputType = "Directory" =>
        \A s \in Samples :
            ~s.OffLimits =>
                /\ SampleKey(s) \in finalized => CopyReturned(s)
                /\ \A name \in NamesOfSample(s) :
                      /\ RowsFor(SampleKey(s), name.FullPathName) # {} => CopyReturned(s)
                      /\ Cardinality(RowsFor(SampleKey(s), name.FullPathName))
                            = IF CopyReturned(s) THEN 1 ELSE 0
                      /\ \A i \in RowsFor(SampleKey(s), name.FullPathName) :
                            csv[i].Hashes = s.HashStream

\* a finished directory run that copied a hashed sample with two names and wrote its rows
C27_Witness ==
    /\ RunSucceeded
    /\ config.OutputType = "Directory"
    /\ \E s \in Samples :
          /\ ~s.OffLimits /\ s.HashStream /\ CopyReturned(s)
          /\ Cardinality(NamesOfSample(s)) = 2
          /\ \A name \in NamesOfSample(s) :
                \E i \in 1..Len(csv) :
                    csv[i].key = SampleKey(s) /\ csv[i].FullPathName = name.FullPathName /\ csv[i].Hashes

\* C28: when limits are not ignored and the global max-sample-count is finite, the number
\* of samples of the registry with OffLimits = FALSE never exceeds it, for any sequence of
\* matches, matches with several attributes included.
C28_CountWithinGlobalMax ==
    (~GlobalLimits.bIgnoreLimits /\ GlobalLimits.dwMaxSampleCount # INFINITE) =>
        Cardinality({s \in Samples : ~s.OffLimits}) <= GlobalLimits.dwMaxSampleCount

\* C29: when limits are not ignored and the global max-bytes-per-sample is finite, every
\* sample of the registry with OffLimits = FALSE was made for an attribute whose data size
\* is at most that limit, the second and later attributes of a match included.
C29_SizeWithinGlobalMax ==
    (~GlobalLimits.bIgnoreLimits /\ GlobalLimits.dwlMaxBytesPerSample # INFINITE) =>
        \A s \in Samples : ~s.OffLimits => AttributeSize(s) <= GlobalLimits.dwlMaxBytesPerSample

\* every attribute key of the match is held by a sample of S
AllKeysPresent(mid, S) == \A k \in KeysOfMatch(MatchOf(mid)) : \E s \in S : SampleKey(s) = k

\* C30: a match callback for a match all of whose attribute keys are already in the
\* registry (a match seen before, or a new match of attributes seen before) changes
\* nothing in the registry or in SampleNames: the samples keep their sample-name,
\* off-limits flag, match list and streams, whatever the limit status of the later match.
C30_DuplicateChangesNothing ==
    [][(/\ pc = "find" /\ pc' = "find"
        /\ \A mid \in delivered' \ delivered : AllKeysPresent(mid, Samples))
       => Samples' = Samples /\ SampleNames' = SampleNames]_vars

\* a hard link of a collected file was matched after the global sample count was reached:
\* the limit is recorded, the sample of the first match is as it was
C30_Witness ==
    /\ delivered = {"M1", "M2"}
    /\ GlobalLimits.bMaxSampleCountReached
    /\ Cardinality(SampleNames) = 1
    /\ \E s \in Samples :
          /\ Samples = {s}
          /\ SampleKey(s) = <<1, 1, 0>>
          /\ ~s.OffLimits /\ s.CopyStream
          /\ Len(s.Matches) = 1

\* positions of the reads of the copy-stream of the sample to EOF
ReadsOf(s) == {i \in 1..Len(reads) : reads[i].key = SampleKey(s)}

\* C31: the copy-stream of each sample is consumed at most once in a run: the sample is
\* passed to WriteSample at most once, its copy-stream is read to EOF at most once, and no
\* sample is both copied to the sink and read into the null sink by FinalizeHashes.
C31_ConsumedAtMostOnce ==
    \A s \in Samples :
        /\ Cardinality({i \in 1..Len(written) : written[i] = SampleKey(s)}) <= 1
        /\ Cardinality(ReadsOf(s)) <= 1
        /\ Cardinality({i \in 1..Len(encLog) :
                           encLog[i].op = "AddStream" /\ encLog[i].key = SampleKey(s)}) <= 1
        /\ Cardinality({f \in files : f.key = SampleKey(s)}) <= 1
        /\ ~(/\ \E i \in ReadsOf(s) : reads[i].into \in {"archive", "file"}
             /\ \E i \in ReadsOf(s) : reads[i].into = "null")

\* a finished run with bReportAll and crypto hashes that copied and hashed two samples,
\* each read once
C31_Witness ==
    /\ RunSucceeded
    /\ config.bReportAll /\ config.CryptoHashAlgs # Undefined
    /\ Len(reads) = 2
    /\ \E s, t \in Samples :
          /\ s # t
          /\ SampleKey(s) \in finalized /\ SampleKey(t) \in finalized
          /\ Cardinality(ReadsOf(s)) = 1 /\ Cardinality(ReadsOf(t)) = 1

\* C32: in the Archive sink every row is in the table stream before GetThis.csv is
\* appended to the archive: the queue has been flushed before, the stream handed over holds
\* every row of the run, and no completion callback runs (no entry is consumed, no hash
\* finalized, no row written) after the append.
C32_RowsBeforeCsvAppended ==
    config.OutputType = "Archive" =>
        \A r \in ReportAt("GetThis.csv") :
            /\ encLog[r].rows = Len(csv)
            /\ queue = <<>>
            /\ \E i \in 1..(r - 1) : encLog[i].op = "FlushQueue"
            /\ \A i \in 1..Len(encLog) : encLog[i].op = "Consumed" => i < r
            /\ \A i \in 1..Len(csv) :
                  \E j \in 1..(r - 1) : encLog[j].op = "Consumed" /\ encLog[j].key = csv[i].key
            /\ \A k \in finalized :
                  \E j \in 1..(r - 1) : encLog[j].op = "Consumed" /\ encLog[j].key = k

\* a finished archive run whose GetThis.csv was appended with the three rows of two
\* samples, one of them consumed only by the FlushQueue of CloseArchiveOutput
C32_Witness ==
    /\ RunSucceeded
    /\ config.OutputType = "Archive"
    /\ Len(csv) = 3
    /\ \E r \in ReportAt("GetThis.csv") :
          /\ encLog[r].rows = 3
          /\ \E f, c \in 1..(r - 1) :
                f < c /\ encLog[f].op = "FlushQueue" /\ encLog[c].op = "Consumed"

=============================================================================
